---- MODULE Spec2Model ----
(***************************************************************************)
(* Model of BaseConnectorService: the legacy dynamic values / dynamic      *)
(* schema resolution, the request routing of _executeAzureDynamicApi and   *)
(* the response normalisation of _getResponseFromDynamicApi.               *)
(*                                                                         *)
(* A string is a sequence of tokens; a token is either the separator "/"   *)
(* or a slash-free piece of text.  A JSON value is a tagged record.        *)
(***************************************************************************)
EXTENDS Integers, Sequences, FiniteSets, TLC

VARIABLES pc, call, requests, transport, outcome

vars == <<pc, call, requests, transport, outcome>>

(***************************************************************************)
(* Bounds                                                                  *)
(***************************************************************************)
\* longest collection a connector response carries
MaxItems == 2

(***************************************************************************)
(* JSON values and JavaScript primitives                                   *)
(***************************************************************************)
Undefined == [t |-> "undefined"]
Null == [t |-> "null"]
JBool(b) == [t |-> "bool", v |-> b]
JNum(n) == [t |-> "num", v |-> n]
JStr(s) == [t |-> "str", v |-> s]
JObj(f) == [t |-> "obj", v |-> f]
JArr(s) == [t |-> "arr", v |-> s]

\* a one-token string
W(w) == <<w>>

isNullOrUndefined(x) == x.t \in {"undefined", "null"}

\* JavaScript truthiness, as used by `x ? a : b`, `x && y` and `!x`
Truthy(x) ==
  CASE x.t = "undefined" -> FALSE
    [] x.t = "null" -> FALSE
    [] x.t = "bool" -> x.v
    [] x.t = "num" -> x.v # 0
    [] x.t = "str" -> x.v # <<>>
    [] OTHER -> TRUE

\* obj[key] of JavaScript: undefined when the object has no such key
Get(obj, key) == IF obj.t = "obj" /\ key \in DOMAIN obj.v THEN obj.v[key] ELSE Undefined

LowerToken(c) ==
  CASE c = "GET" -> "get"
    [] c = "Get" -> "get"
    [] c = "Post" -> "post"
    [] c = "POST" -> "post"
    [] c = "PUT" -> "put"
    [] c = "Put" -> "put"
    [] c = "DELETE" -> "delete"
    [] c = "Properties" -> "properties"
    [] c = "PROPERTIES" -> "properties"
    [] OTHER -> c

toLowerCase(s) == [i \in DOMAIN s |-> LowerToken(s[i])]

\* case-insensitive string equality
equals(a, b) == toLowerCase(a) = toLowerCase(b)

\* String.prototype.split('/')
RECURSIVE split(_)
split(s) ==
  IF \A i \in DOMAIN s : s[i] # "/" THEN <<s>>
  ELSE LET i == CHOOSE k \in DOMAIN s : s[k] = "/" /\ \A j \in 1..(k - 1) : s[j] # "/"
       IN <<SubSeq(s, 1, i - 1)>> \o split(SubSeq(s, i + 1, Len(s)))

\* Path Extractor
RECURSIVE getObjectPropertyValue(_, _)
getObjectPropertyValue(object, properties) ==
  IF properties = <<>> THEN object
  ELSE IF isNullOrUndefined(object) THEN Undefined
  ELSE getObjectPropertyValue(Get(object, Head(properties)), Tail(properties))

\* coercion of a collection element to its plain JSON representation
getJSONValue(x) ==
  IF x = JStr(W("7")) THEN JNum(7)
  ELSE IF x = JStr(W("true")) THEN JBool(TRUE)
  ELSE x

Types_Object == W("object")

(***************************************************************************)
(* Service options                                                         *)
(***************************************************************************)
baseUrl == W("https://designer")
apiHubBaseUrl == W("https://apihub")
apiHubApiVersion == W("2018-07-01-preview")

trimUrl(url) ==
  LET a == IF url # <<>> /\ Head(url) = "/" THEN Tail(url) ELSE url
  IN IF a # <<>> /\ a[Len(a)] = "/" THEN SubSeq(a, 1, Len(a) - 1) ELSE a

pathCombine(url, path) ==
  IF url = <<>> \/ path = <<>> THEN (IF url # <<>> THEN url ELSE path)
  ELSE trimUrl(url) \o W("/") \o trimUrl(path)

isArmResourceId(id) ==
  /\ Len(id) >= 2
  /\ id[1] = "/"
  /\ LowerToken(id[2]) = "subscriptions"
  /\ \E i \in DOMAIN id : LowerToken(id[i]) = "providers"

(***************************************************************************)
(* Errors                                                                  *)
(***************************************************************************)
NoError == [type |-> "none"]

ConnectorServiceException(code, message, data, cause) ==
  [type |-> "ConnectorServiceException", code |-> code, message |-> message, data |-> data, cause |-> cause]

UnsupportedException(message) == [type |-> "UnsupportedException", message |-> message]

TypeError(message) == [type |-> "TypeError", message |-> message]

Return(v) == [kind |-> "return", value |-> v]
Throw(e) == [kind |-> "throw", error |-> e]

(***************************************************************************)
(* Response Normalizer                                                     *)
(***************************************************************************)
\* text of a scalar substituted into a message template
Text(x) ==
  CASE x.t = "str" -> x.v
    [] x = JNum(404) -> W("404")
    [] OTHER -> W("[object]")

ClientRequestIdHeader == W("x-ms-client-request-id")

getClientRequestIdFromHeaders(headers) ==
  IF isNullOrUndefined(headers) THEN Undefined ELSE Get(headers, ClientRequestIdHeader)

DefaultErrorMessage(requestUrl) == W("Error executing the api - ") \o requestUrl

DiagnosticSuffix(clientRequestId) ==
  W("More diagnostic information: x-ms-client-request-id is '") \o Text(clientRequestId) \o W("'.")

\* the destructuring `body: { error, message }` throws when body is null or undefined
_getErrorMessageFromConnectorResponse(response, defaultErrorMessage, clientRequestId) ==
  LET body == Get(response, W("body"))
      error == Get(body, W("error"))
      message == Get(body, W("message"))
      statusCode == Get(response, W("statusCode"))
      errorMessage ==
        IF statusCode # Undefined /\ Truthy(message)
        THEN W("Error code: '") \o Text(statusCode) \o W("', Message: '") \o Text(message) \o W("'.")
        ELSE IF isNullOrUndefined(error) \/ isNullOrUndefined(Get(error, W("message")))
             THEN defaultErrorMessage
             ELSE Text(Get(error, W("message")))
  IN IF isNullOrUndefined(body)
     THEN Throw(TypeError(W("Cannot destructure property 'error' of 'body'")))
     ELSE Return(IF Truthy(clientRequestId)
                 THEN errorMessage \o W(" ") \o DiagnosticSuffix(clientRequestId)
                 ELSE errorMessage)

\* responseJson.response ?? responseJson
ConnectorResponse(responseJson) ==
  IF isNullOrUndefined(Get(responseJson, W("response")))
  THEN responseJson
  ELSE Get(responseJson, W("response"))

_getResponseFromDynamicApi(responseJson, requestUrl) ==
  LET connectorResponse == ConnectorResponse(responseJson)
      clientRequestId == getClientRequestIdFromHeaders(Get(connectorResponse, W("headers")))
      errorMessage == _getErrorMessageFromConnectorResponse(connectorResponse, DefaultErrorMessage(requestUrl), clientRequestId)
  IN IF Get(connectorResponse, W("statusCode")) = JStr(W("OK"))
     THEN Return(Get(connectorResponse, W("body")))
     ELSE IF errorMessage.kind = "throw"
          THEN errorMessage
          ELSE Throw(ConnectorServiceException("API_EXECUTION_FAILED_WITH_ERROR", errorMessage.value,
                                               [connectorResponse |-> connectorResponse], NoError))

(***************************************************************************)
(* Request Router                                                          *)
(***************************************************************************)
Uri(c) ==
  IF c.isManagedIdentityTypeConnection
  THEN baseUrl \o W("/") \o W("dynamicInvoke")
  ELSE IF isArmResourceId(c.connectorId)
       THEN pathCombine(apiHubBaseUrl \o W("/") \o c.connectionId \o W("/") \o W("extensions") \o W("/") \o W("proxy"), c.parameters.path)
       ELSE pathCombine(baseUrl \o W("/") \o c.connectionId \o W("/") \o W("extensions") \o W("/") \o W("proxy"), c.parameters.path)

\* mutant: the catch blocks always use the formatted fallback message
WrapExecutionFailed_FallbackMessageOnly(c, ex) ==
  ConnectorServiceException(
    "API_EXECUTION_FAILED",
    W("Error executing the api '") \o c.parameters.path \o W("'."),
    [requestMethod |-> c.parameters.method, uri |-> Uri(c), inputPath |-> c.parameters.path],
    ex)

\* the ConnectorServiceException both catch blocks build around a caught error
WrapExecutionFailed(c, ex) ==
  ConnectorServiceException(
    "API_EXECUTION_FAILED",
    IF ex.message # <<>> THEN ex.message
    ELSE W("Error executing the api '") \o c.parameters.path \o W("'."),
    [requestMethod |-> c.parameters.method, uri |-> Uri(c), inputPath |-> c.parameters.path],
    ex)

\* mutant: the managed-identity branch dispatches the verb params.method names
ManagedIdentityRequest_UsesRequestedMethod(c) ==
  [verb |-> (CASE toLowerCase(c.parameters.method) = W("get") -> "GET"
               [] toLowerCase(c.parameters.method) = W("put") -> "PUT"
               [] OTHER -> "POST"),
   options |-> [uri |-> Uri(c),
                queryParameters |-> JObj(W("api-version") :> JStr(apiHubApiVersion)),
                content |-> [request |-> [method |-> c.parameters.method,
                                          path |-> c.parameters.path,
                                          body |-> c.parameters.body,
                                          queries |-> c.parameters.queries,
                                          headers |-> c.parameters.headers],
                             properties |-> c.managedIdentityProperties]]]

ManagedIdentityRequest(c) ==
  [verb |-> "POST",
   options |-> [uri |-> Uri(c),
                queryParameters |-> JObj(W("api-version") :> JStr(apiHubApiVersion)),
                content |-> [request |-> [method |-> c.parameters.method,
                                          path |-> c.parameters.path,
                                          body |-> c.parameters.body,
                                          queries |-> c.parameters.queries,
                                          headers |-> c.parameters.headers],
                             properties |-> c.managedIdentityProperties]]]

\* { 'api-version': ..., ...parameters['queries'] }
ProxyQueryParameters(c) ==
  IF c.parameters.queries.t = "obj"
  THEN JObj(c.parameters.queries.v @@ (W("api-version") :> JStr(apiHubApiVersion)))
  ELSE JObj(W("api-version") :> JStr(apiHubApiVersion))

ProxyOptions(c) ==
  [uri |-> Uri(c), queryParameters |-> ProxyQueryParameters(c), headers |-> c.parameters.headers]

\* mutant: an empty object body is not attached
WithContent_SkipsEmptyObject(options, bodyContent) ==
  IF Truthy(bodyContent) /\ bodyContent # JObj(<<>>)
  THEN [uri |-> options.uri, queryParameters |-> options.queryParameters,
        headers |-> options.headers, content |-> bodyContent]
  ELSE options

\* bodyContent ? { ...options, content: bodyContent } : options
WithContent(options, bodyContent) ==
  IF Truthy(bodyContent)
  THEN [uri |-> options.uri, queryParameters |-> options.queryParameters,
        headers |-> options.headers, content |-> bodyContent]
  ELSE options

\* mutant: the 'post' case lacks its return and falls through to 'put'
Dispatch_PostFallsThrough(c) ==
  IF c.isManagedIdentityTypeConnection
  THEN [requests |-> <<ManagedIdentityRequest(c)>>, thrown |-> NoError]
  ELSE CASE toLowerCase(c.parameters.method) = W("get") ->
              [requests |-> <<[verb |-> "GET", options |-> ProxyOptions(c)]>>, thrown |-> NoError]
         [] toLowerCase(c.parameters.method) = W("post") ->
              [requests |-> <<[verb |-> "POST", options |-> WithContent(ProxyOptions(c), c.parameters.body)],
                              [verb |-> "PUT", options |-> WithContent(ProxyOptions(c), c.parameters.body)]>>,
               thrown |-> NoError]
         [] toLowerCase(c.parameters.method) = W("put") ->
              [requests |-> <<[verb |-> "PUT", options |-> WithContent(ProxyOptions(c), c.parameters.body)]>>, thrown |-> NoError]
         [] OTHER ->
              [requests |-> <<>>,
               thrown |-> UnsupportedException(W("Unsupported dynamic call connector method - '") \o c.parameters.method \o W("'"))]

\* the HTTP client calls one run of _executeAzureDynamicApi makes, and the
\* error its switch throws before any call
Dispatch(c) ==
  IF c.isManagedIdentityTypeConnection
  THEN [requests |-> <<ManagedIdentityRequest(c)>>, thrown |-> NoError]
  ELSE CASE toLowerCase(c.parameters.method) = W("get") ->
              [requests |-> <<[verb |-> "GET", options |-> ProxyOptions(c)]>>, thrown |-> NoError]
         [] toLowerCase(c.parameters.method) = W("post") ->
              [requests |-> <<[verb |-> "POST", options |-> WithContent(ProxyOptions(c), c.parameters.body)]>>, thrown |-> NoError]
         [] toLowerCase(c.parameters.method) = W("put") ->
              [requests |-> <<[verb |-> "PUT", options |-> WithContent(ProxyOptions(c), c.parameters.body)]>>, thrown |-> NoError]
         [] OTHER ->
              [requests |-> <<>>,
               thrown |-> UnsupportedException(W("Unsupported dynamic call connector method - '") \o c.parameters.method \o W("'"))]

\* what `await this._executeAzureDynamicApi(...)` yields, given how the HTTP
\* client call ended: tr.kind is "threw" (synchronous throw), "rejected",
\* "resolved", or "none" when no call was made
_executeAzureDynamicApi(c, tr) ==
  IF c.isManagedIdentityTypeConnection
  THEN CASE tr.kind = "resolved" ->
              LET r == _getResponseFromDynamicApi(tr.value, Uri(c))
              IN IF r.kind = "throw" THEN Throw(WrapExecutionFailed(c, r.error)) ELSE r
         [] OTHER -> Throw(WrapExecutionFailed(c, tr.error))
  ELSE CASE tr.kind = "none" -> Throw(WrapExecutionFailed(c, Dispatch(c).thrown))
         [] tr.kind = "threw" -> Throw(WrapExecutionFailed(c, tr.error))
         [] tr.kind = "rejected" -> Throw(tr.error)
         [] OTHER -> Return(tr.value)

(***************************************************************************)
(* Legacy Dynamic Resolver                                                 *)
(***************************************************************************)
\* values.length is truthy
HasLength(values) ==
  CASE values.t = "arr" -> values.v # <<>>
    [] values.t = "str" -> values.v # <<>>
    [] values.t = "obj" -> Truthy(Get(values, W("length")))
    [] OTHER -> FALSE

\* mutant: the selectable value is tested against undefined only, so a null
\* selectable value disables the entry
MapProperty_NullSelectableDisables(property, extension, parameterArrayType) ==
  LET scalar == parameterArrayType # <<>> /\ parameterArrayType # Types_Object
      value == IF scalar THEN getJSONValue(property)
               ELSE getObjectPropertyValue(property, split(extension.valuePath))
      displayName == IF scalar THEN getJSONValue(property)
                     ELSE IF extension.valueTitle # <<>>
                          THEN getObjectPropertyValue(property, split(extension.valueTitle))
                          ELSE value
      description == IF extension.valueDescription # <<>>
                     THEN getObjectPropertyValue(property, split(extension.valueDescription))
                     ELSE Undefined
      selectableValue == getObjectPropertyValue(property, split(extension.valueSelectable))
      isSelectable == IF extension.valueSelectable # <<>> /\ selectableValue # Undefined
                      THEN selectableValue
                      ELSE JBool(TRUE)
  IN JObj((W("value") :> value) @@ (W("displayName") :> displayName)
          @@ (W("description") :> description) @@ (W("disabled") :> JBool(~Truthy(isSelectable))))

\* the callback of values.map
MapProperty(property, extension, parameterArrayType) ==
  LET scalar == parameterArrayType # <<>> /\ parameterArrayType # Types_Object
      value == IF scalar THEN getJSONValue(property)
               ELSE getObjectPropertyValue(property, split(extension.valuePath))
      displayName == IF scalar THEN getJSONValue(property)
                     ELSE IF extension.valueTitle # <<>>
                          THEN getObjectPropertyValue(property, split(extension.valueTitle))
                          ELSE value
      description == IF extension.valueDescription # <<>>
                     THEN getObjectPropertyValue(property, split(extension.valueDescription))
                     ELSE Undefined
      selectableValue == getObjectPropertyValue(property, split(extension.valueSelectable))
      isSelectable == IF extension.valueSelectable # <<>> /\ ~isNullOrUndefined(selectableValue)
                      THEN selectableValue
                      ELSE JBool(TRUE)
  IN JObj((W("value") :> value) @@ (W("displayName") :> displayName)
          @@ (W("description") :> description) @@ (W("disabled") :> JBool(~Truthy(isSelectable))))

\* the candidate collection of a response
ValueCollection(response, extension) ==
  getObjectPropertyValue(response, IF extension.valueCollection # <<>> THEN split(extension.valueCollection) ELSE <<>>)

\* getLegacyDynamicValues after the await; r is what the await yielded
getLegacyDynamicValues(c, r) ==
  IF r.kind = "throw" THEN r
  ELSE LET values == ValueCollection(r.value, c.extension)
       IN IF Truthy(values) /\ HasLength(values)
          THEN IF values.t = "arr"
               THEN Return(JArr([i \in DOMAIN values.v |-> MapProperty(values.v[i], c.extension, c.parameterArrayType)]))
               ELSE Throw(TypeError(W("values.map is not a function")))
          ELSE r

\* the array Array.prototype.splice(start, deleteCount) returns: the removed elements
splice(array, start, deleteCount) ==
  LET from == IF start < 0 THEN (IF Len(array) + start < 0 THEN 0 ELSE Len(array) + start)
              ELSE (IF start > Len(array) THEN Len(array) ELSE start)
      to == IF from + deleteCount > Len(array) THEN Len(array) ELSE from + deleteCount
  IN SubSeq(array, from + 1, to)

\* the path getLegacyDynamicSchema hands to getObjectPropertyValue
SchemaExtractionPath(schemaPath) ==
  IF Len(schemaPath) > 0 /\ equals(schemaPath[Len(schemaPath)], W("properties"))
  THEN splice(schemaPath, -1, 1)
  ELSE schemaPath

\* getLegacyDynamicSchema after the await; r is what the await yielded
getLegacyDynamicSchema(c, r) ==
  IF r.kind = "throw" THEN r
  ELSE IF ~Truthy(r.value) THEN Return(Null)
  ELSE IF c.extension.valuePath = <<>>
       THEN Return(JObj((W("properties") :> r.value) @@ (W("type") :> JStr(Types_Object))))
       ELSE LET v == getObjectPropertyValue(r.value, SchemaExtractionPath(split(c.extension.valuePath)))
            IN Return(IF isNullOrUndefined(v) THEN Null ELSE v)

\* the outcome of a call, given how its HTTP client call ended
Complete(c, tr) ==
  IF c.operation = "getLegacyDynamicValues"
  THEN getLegacyDynamicValues(c, _executeAzureDynamicApi(c, tr))
  ELSE getLegacyDynamicSchema(c, _executeAzureDynamicApi(c, tr))

(***************************************************************************)
(* Inputs                                                                  *)
(***************************************************************************)
ConnectionId == <<"connections", "/", "sql">>
ArmConnectorId == <<"/", "subscriptions", "/", "sub1", "/", "providers", "/", "Microsoft.Web", "/", "managedApis", "/", "sql">>
GenericConnectorId == <<"/", "serviceProviders", "/", "sql">>
ConnectorIds == {ArmConnectorId, GenericConnectorId}

Methods == {W("get"), W("Post"), W("PUT"), W("delete"), W("PATCH")}
Paths == {<<"/", "foo">>, W("bar")}
EmptyObject == JObj(<<>>)
Bodies == {Undefined, JNum(0), EmptyObject, JObj(W("k") :> JNum(1))}
RequestQueries == JObj(W("q") :> JStr(W("1")))
RequestHeaders == JObj(W("accept") :> JStr(W("json")))
ManagedIdentityProperties == JObj(W("audience") :> JStr(W("vault")))

Parameters ==
  [method : Methods, path : Paths, body : Bodies, queries : {RequestQueries}, headers : {RequestHeaders}]

ValuesExtensions ==
  [valueCollection : {<<>>, W("items")}, valuePath : {W("id")}, valueTitle : {<<>>, W("name")},
   valueDescription : {<<>>}, valueSelectable : {<<>>, W("sel")}]

ParameterArrayTypes == {<<>>, W("object"), W("string")}

SchemaExtensions ==
  [valuePath : {<<>>, <<"a", "/", "b", "/", "properties">>, <<"a", "/", "Properties">>,
                W("properties"), <<"a", "/", "b">>, <<"c", "/", "properties">>}]

\* what the connector serves
Item1 == JObj((W("id") :> JNum(1)) @@ (W("name") :> JStr(W("one"))) @@ (W("sel") :> JBool(FALSE)))
Item2 == JObj((W("id") :> JNum(2)) @@ (W("sel") :> Null))
Item3 == JStr(W("7"))
Items == {Item1, Item2, Item3}

RECURSIVE SeqsUpTo(_, _)
SeqsUpTo(S, n) ==
  IF n = 0 THEN {<<>>}
  ELSE LET shorter == SeqsUpTo(S, n - 1)
       IN shorter \cup {Append(s, x) : s \in {q \in shorter : Len(q) = n - 1}, x \in S}

Collections == {JArr(s) : s \in SeqsUpTo(Items, MaxItems)}

Leaf(n) == JObj((W("type") :> JStr(W("string"))) @@ (W("title") :> JNum(n)))
SchemaBody1 ==
  JObj((W("a") :> JObj((W("b") :> Leaf(1)) @@ (W("properties") :> Leaf(2))))
       @@ (W("properties") :> Leaf(3)))
SchemaBody2 == JObj(W("a") :> JObj(W("b") :> Leaf(1)))

CollectionBodies == Collections \cup {JObj(W("items") :> col) : col \in Collections}
SchemaBodies == {SchemaBody1, SchemaBody2}

\* an object literal without its undefined members
Compact(f) == [k \in {j \in DOMAIN f : f[j] # Undefined} |-> f[k]]

OkEnvelope(b) == JObj(Compact((W("statusCode") :> JStr(W("OK"))) @@ (W("body") :> b)))
OkEnvelopes == {OkEnvelope(b) : b \in CollectionBodies \cup SchemaBodies \cup {Undefined}}

ErrorStatusCodes == {Undefined, JNum(404)}
ErrorBodies ==
  {Undefined, EmptyObject,
   JObj(W("error") :> JObj(W("message") :> JStr(W("not found")))),
   JObj(W("message") :> JStr(W("bad request")))}
ErrorHeaders == {Undefined, JObj(ClientRequestIdHeader :> JStr(W("rid-1")))}

ErrorEnvelopes ==
  {JObj(Compact((W("statusCode") :> sc) @@ (W("body") :> b) @@ (W("headers") :> h))) :
     sc \in ErrorStatusCodes, b \in ErrorBodies, h \in ErrorHeaders}
  \cup {JObj((W("statusCode") :> JNum(404)) @@ (W("message") :> JStr(W("gone"))) @@ (W("body") :> EmptyObject))}

Envelopes == OkEnvelopes \cup ErrorEnvelopes

\* some transports wrap the envelope once more, under `response`
RawResponses == Envelopes \cup {JObj(W("response") :> e) : e \in Envelopes}

TransportErrors == {[type |-> "Error", message |-> W("ECONNRESET")], [type |-> "Error", message |-> <<>>]}

(***************************************************************************)
(* State machine: one call from invocation to settlement                   *)
(***************************************************************************)
NoCall == [operation |-> "none"]
NoTransport == [kind |-> "none"]
Pending == [kind |-> "pending"]

Init ==
  /\ pc = "idle"
  /\ call = NoCall
  /\ requests = <<>>
  /\ transport = NoTransport
  /\ outcome = Pending

\* pc and outcome once the synchronous part of a call has run: the call
\* awaits the HTTP client, or has already failed when the switch threw
PcAfterDispatch(c) == IF Dispatch(c).thrown = NoError THEN "awaiting" ELSE "done"
OutcomeAfterDispatch(c) == IF Dispatch(c).thrown = NoError THEN Pending ELSE Complete(c, NoTransport)

InvokeGetLegacyDynamicValues ==
  /\ pc = "idle"
  /\ \E connectorId \in ConnectorIds, parameters \in Parameters, extension \in ValuesExtensions,
        parameterArrayType \in ParameterArrayTypes, isManagedIdentityTypeConnection \in BOOLEAN :
       /\ call' = [operation |-> "getLegacyDynamicValues", connectionId |-> ConnectionId,
                   connectorId |-> connectorId, parameters |-> parameters, extension |-> extension,
                   parameterArrayType |-> parameterArrayType,
                   isManagedIdentityTypeConnection |-> isManagedIdentityTypeConnection,
                   managedIdentityProperties |-> ManagedIdentityProperties]
       /\ requests' = Dispatch(call').requests
       /\ pc' = PcAfterDispatch(call')
       /\ outcome' = OutcomeAfterDispatch(call')
  /\ UNCHANGED transport

InvokeGetLegacyDynamicSchema ==
  /\ pc = "idle"
  /\ \E connectorId \in ConnectorIds, parameters \in Parameters, extension \in SchemaExtensions,
        isManagedIdentityTypeConnection \in BOOLEAN :
       /\ call' = [operation |-> "getLegacyDynamicSchema", connectionId |-> ConnectionId,
                   connectorId |-> connectorId, parameters |-> parameters, extension |-> extension,
                   parameterArrayType |-> <<>>,
                   isManagedIdentityTypeConnection |-> isManagedIdentityTypeConnection,
                   managedIdentityProperties |-> ManagedIdentityProperties]
       /\ requests' = Dispatch(call').requests
       /\ pc' = PcAfterDispatch(call')
       /\ outcome' = OutcomeAfterDispatch(call')
  /\ UNCHANGED transport

\* the HTTP client throws inside get/post/put, before it returns a promise
HttpClientThrows ==
  /\ pc = "awaiting"
  /\ \E e \in TransportErrors : transport' = [kind |-> "threw", error |-> e]
  /\ outcome' = Complete(call, transport')
  /\ pc' = "done"
  /\ UNCHANGED <<call, requests>>

\* the promise the HTTP client returned rejects
HttpClientRejects ==
  /\ pc = "awaiting"
  /\ \E e \in TransportErrors : transport' = [kind |-> "rejected", error |-> e]
  /\ outcome' = Complete(call, transport')
  /\ pc' = "done"
  /\ UNCHANGED <<call, requests>>

\* the promise the HTTP client returned resolves
HttpClientResolves ==
  /\ pc = "awaiting"
  /\ \E raw \in RawResponses : transport' = [kind |-> "resolved", value |-> raw]
  /\ outcome' = Complete(call, transport')
  /\ pc' = "done"
  /\ UNCHANGED <<call, requests>>

Next ==
  \/ InvokeGetLegacyDynamicValues
  \/ InvokeGetLegacyDynamicSchema
  \/ HttpClientThrows
  \/ HttpClientRejects
  \/ HttpClientResolves

Spec == Init /\ [][Next]_vars

(***************************************************************************)
(* Properties                                                              *)
(***************************************************************************)
Started == pc # "idle"
Done == pc = "done"
OnProxyRoute == Started /\ ~call.isManagedIdentityTypeConnection
OnManagedIdentityRoute == Started /\ call.isManagedIdentityTypeConnection
SupportedMethod(m) == toLowerCase(m) \in {W("get"), W("post"), W("put")}
Resolved == Done /\ transport.kind = "resolved"
Envelope == ConnectorResponse(transport.value)
EnvelopeOk == Get(Envelope, W("statusCode")) = JStr(W("OK"))
\* what the resolver holds after the await
Awaited == _executeAzureDynamicApi(call, transport)
DropLast(q) == SubSeq(q, 1, Len(q) - 1)
NullIfAbsent(x) == IF isNullOrUndefined(x) THEN Null ELSE x
Contains(text, part) == \E i \in 1..(Len(text) - Len(part) + 1) : SubSeq(text, i, i + Len(part) - 1) = part
HasContent(request) == "content" \in DOMAIN request.options
NoLeadingSlash(path) == IF path # <<>> /\ Head(path) = "/" THEN Tail(path) ELSE path
ExpectedProxyUri(c) ==
  (IF isArmResourceId(c.connectorId) THEN apiHubBaseUrl ELSE baseUrl)
  \o W("/") \o c.connectionId \o <<"/", "extensions", "/", "proxy", "/">> \o NoLeadingSlash(c.parameters.path)
ExpectedUri(c) ==
  IF c.isManagedIdentityTypeConnection THEN baseUrl \o <<"/", "dynamicInvoke">> ELSE ExpectedProxyUri(c)
ExpectedFailureData(c, uri) ==
  [requestMethod |-> c.parameters.method, uri |-> uri, inputPath |-> c.parameters.path]

\* C1: resolveSchema with a valuePath whose last segment is "properties"
\* (any letter case) returns extract(body, path without that last segment),
\* or null when that extraction yields nothing.
C1_SchemaStripsTrailingProperties ==
  (/\ Done
   /\ call.operation = "getLegacyDynamicSchema"
   /\ call.extension.valuePath # <<>>
   /\ Awaited.kind = "return"
   /\ equals(split(call.extension.valuePath)[Len(split(call.extension.valuePath))], W("properties")))
  => outcome = Return(NullIfAbsent(getObjectPropertyValue(Awaited.value, DropLast(split(call.extension.valuePath)))))

\* C2: on every route, a completed call whose envelope's statusCode is not
\* "OK" fails with a DynamicApiError of code API_EXECUTION_FAILED_WITH_ERROR
\* carrying the envelope, and that error reaches the caller as it is.
C2_ApiFailureReachesCallerUnchanged ==
  (Resolved /\ ~EnvelopeOk)
  => /\ outcome.kind = "throw"
     /\ outcome.error.type = "ConnectorServiceException"
     /\ outcome.error.code = "API_EXECUTION_FAILED_WITH_ERROR"
     /\ outcome.error.data = [connectorResponse |-> Envelope]

\* C3: any transport failure, thrown synchronously or rejected later, on any
\* route, reaches the caller as a DynamicApiError of code API_EXECUTION_FAILED
\* with data {requestMethod, uri, inputPath} and the original error as cause.
C3_TransportFailureIsWrapped ==
  (Done /\ transport.kind \in {"threw", "rejected"})
  => /\ outcome.kind = "throw"
     /\ outcome.error.type = "ConnectorServiceException"
     /\ outcome.error.code = "API_EXECUTION_FAILED"
     /\ outcome.error.data = ExpectedFailureData(call, ExpectedUri(call))
     /\ outcome.error.cause = transport.error

\* C4: on every route, when the call completes with an envelope whose
\* statusCode is "OK", the resolver works on envelope.body, never on the
\* envelope itself.
C4_ResolverWorksOnEnvelopeBody ==
  (Resolved /\ EnvelopeOk)
  => outcome = (IF call.operation = "getLegacyDynamicValues"
                THEN getLegacyDynamicValues(call, Return(Get(Envelope, W("body"))))
                ELSE getLegacyDynamicSchema(call, Return(Get(Envelope, W("body")))))

\* C5: whenever isManagedIdentity is true, whatever connectorId and
\* params.method are, exactly one request is dispatched: a POST to
\* <baseUrl>/dynamicInvoke with an api-version query parameter and content
\* {request: {method, path, body, queries, headers}, properties}.
C5_ManagedIdentityTakesPrecedence ==
  OnManagedIdentityRoute
  => /\ Len(requests) = 1
     /\ requests[1].verb = "POST"
     /\ requests[1].options.uri = baseUrl \o <<"/", "dynamicInvoke">>
     /\ Get(requests[1].options.queryParameters, W("api-version")) = JStr(apiHubApiVersion)
     /\ HasContent(requests[1])
     /\ requests[1].options.content =
          [request |-> [method |-> call.parameters.method, path |-> call.parameters.path,
                        body |-> call.parameters.body, queries |-> call.parameters.queries,
                        headers |-> call.parameters.headers],
           properties |-> call.managedIdentityProperties]

C5_Witness ==
  /\ Done
  /\ call.isManagedIdentityTypeConnection
  /\ isArmResourceId(call.connectorId)
  /\ ~SupportedMethod(call.parameters.method)
  /\ Len(requests) = 1
  /\ requests[1].verb = "POST"

ExpectedVerb(m) ==
  CASE toLowerCase(m) = W("get") -> "GET"
    [] toLowerCase(m) = W("post") -> "POST"
    [] toLowerCase(m) = W("put") -> "PUT"
    [] OTHER -> "NONE"

\* a body that is present and has something in it
NonEmpty(b) == ~isNullOrUndefined(b) /\ b # EmptyObject /\ b # JArr(<<>>) /\ b # JStr(<<>>)

\* verb and target of a proxy dispatch; a GET carries no content
ProxyTarget ==
  /\ Len(requests) = 1
  /\ requests[1].verb = ExpectedVerb(call.parameters.method)
  /\ requests[1].options.uri = ExpectedProxyUri(call)
  /\ requests[1].verb = "GET" => ~HasContent(requests[1])

CarriesBody == HasContent(requests[1]) /\ requests[1].options.content = call.parameters.body

\* C6 as stated: on the proxy routes the verb named by params.method goes to
\* <base>/<connectionId>/extensions/proxy/<path>; a GET never carries
\* content, a POST or PUT carries params.body exactly when it is non-empty.
C6_AsStated ==
  (OnProxyRoute /\ SupportedMethod(call.parameters.method))
  => /\ ProxyTarget
     /\ requests[1].verb \in {"POST", "PUT"} =>
          IF NonEmpty(call.parameters.body) THEN CarriesBody ELSE ~HasContent(requests[1])

\* C6 as amended: the same, except that a POST or PUT carries params.body
\* exactly when it is truthy; an empty object is truthy and is sent.
C6_ProxyDispatch ==
  (OnProxyRoute /\ SupportedMethod(call.parameters.method))
  => /\ ProxyTarget
     /\ requests[1].verb \in {"POST", "PUT"} =>
          IF Truthy(call.parameters.body) THEN CarriesBody ELSE ~HasContent(requests[1])

C6_Witness ==
  /\ Done
  /\ ~call.isManagedIdentityTypeConnection
  /\ isArmResourceId(call.connectorId)
  /\ call.parameters.method = W("PUT")
  /\ call.parameters.body = EmptyObject
  /\ Len(requests) = 1
  /\ HasContent(requests[1])

\* C7: on the proxy routes a params.method other than get, post or put fails
\* with a DynamicApiError of code API_EXECUTION_FAILED whose message names
\* the method and whose data carries requestMethod, uri and inputPath; no
\* request is dispatched.
C7_UnsupportedMethodFails ==
  (OnProxyRoute /\ ~SupportedMethod(call.parameters.method))
  => /\ Done
     /\ requests = <<>>
     /\ transport = NoTransport
     /\ outcome.kind = "throw"
     /\ outcome.error.type = "ConnectorServiceException"
     /\ outcome.error.code = "API_EXECUTION_FAILED"
     /\ Contains(outcome.error.message, call.parameters.method)
     /\ outcome.error.data = ExpectedFailureData(call, ExpectedProxyUri(call))

C7_Witness ==
  /\ Done
  /\ ~call.isManagedIdentityTypeConnection
  /\ call.parameters.method = W("delete")
  /\ outcome.kind = "throw"
  /\ requests = <<>>

\* C8 as stated: every invocation, however it ends, performs exactly one
\* outbound HTTP call.
C8_AsStated == Done => Len(requests) = 1

\* C8 as amended: every invocation performs at most one outbound HTTP call:
\* none when the route is a proxy route and the method is unsupported, and
\* exactly one otherwise, however the call ends.
C8_AtMostOneCall ==
  Done => Len(requests) = (IF ~call.isManagedIdentityTypeConnection /\ ~SupportedMethod(call.parameters.method)
                           THEN 0 ELSE 1)

C8_Witness ==
  /\ Done
  /\ transport.kind = "rejected"
  /\ outcome.kind = "throw"
  /\ Len(requests) = 1

Collection == ValueCollection(Awaited.value, call.extension)
HasCollection ==
  /\ Done
  /\ call.operation = "getLegacyDynamicValues"
  /\ Awaited.kind = "return"
  /\ Collection.t = "arr"
  /\ Collection.v # <<>>
ScalarArrayType == call.parameterArrayType # <<>> /\ call.parameterArrayType # W("object")
ValueAtPath(element) == getObjectPropertyValue(element, split(call.extension.valuePath))
TitleAtPath(element) ==
  IF call.extension.valueTitle # <<>>
  THEN getObjectPropertyValue(element, split(call.extension.valueTitle))
  ELSE ValueAtPath(element)
DisabledOf(element) ==
  LET v == getObjectPropertyValue(element, split(call.extension.valueSelectable))
  IN IF call.extension.valueSelectable # <<>> /\ ~isNullOrUndefined(v) THEN ~Truthy(v) ELSE FALSE
SameLengthSequence ==
  /\ outcome.kind = "return"
  /\ outcome.value.t = "arr"
  /\ Len(outcome.value.v) = Len(Collection.v)

\* C9 as stated: a non-empty candidate collection of length n yields n
\* DynamicValues in the same order, the i-th with value from valuePath,
\* displayName from valueTitlePath or else value, and disabled false unless
\* valueSelectablePath yields a defined v, then disabled = !v.
C9_AsStated ==
  HasCollection
  => /\ SameLengthSequence
     /\ \A i \in DOMAIN Collection.v :
          /\ Get(outcome.value.v[i], W("value")) = ValueAtPath(Collection.v[i])
          /\ Get(outcome.value.v[i], W("displayName")) = TitleAtPath(Collection.v[i])
          /\ Get(outcome.value.v[i], W("disabled")) = JBool(DisabledOf(Collection.v[i]))

\* C9 as amended: the same when parameterArrayType is unset or "object";
\* with any other parameterArrayType the i-th value and displayName are both
\* the i-th element coerced to its JSON value; disabled is as stated.
C9_ValuesMapCollection ==
  HasCollection
  => /\ SameLengthSequence
     /\ \A i \in DOMAIN Collection.v :
          /\ Get(outcome.value.v[i], W("value")) =
               (IF ScalarArrayType THEN getJSONValue(Collection.v[i]) ELSE ValueAtPath(Collection.v[i]))
          /\ Get(outcome.value.v[i], W("displayName")) =
               (IF ScalarArrayType THEN getJSONValue(Collection.v[i]) ELSE TitleAtPath(Collection.v[i]))
          /\ Get(outcome.value.v[i], W("disabled")) = JBool(DisabledOf(Collection.v[i]))

C9_Witness ==
  /\ HasCollection
  /\ call.extension.valueCollection = W("items")
  /\ call.extension.valueTitle = W("name")
  /\ call.extension.valueSelectable = W("sel")
  /\ ~ScalarArrayType
  /\ Collection = JArr(<<Item2, Item1>>)
  /\ outcome.kind = "return"
  /\ Get(outcome.value.v[2], W("disabled")) = JBool(TRUE)
  /\ Get(outcome.value.v[1], W("value")) = JNum(2)

\* the message C10 gives an envelope that is not "OK"
StatedMessage(envelope, requestUrl) ==
  LET body == Get(envelope, W("body"))
      errorMessage == Get(Get(body, W("error")), W("message"))
      base == IF Get(envelope, W("statusCode")) # Undefined /\ Truthy(Get(envelope, W("message")))
              THEN W("Error code: '") \o Text(Get(envelope, W("statusCode"))) \o W("', Message: '")
                   \o Text(Get(envelope, W("message"))) \o W("'.")
              ELSE IF ~isNullOrUndefined(errorMessage) THEN Text(errorMessage)
              ELSE W("Error executing the api - ") \o requestUrl
      id == Get(Get(envelope, W("headers")), ClientRequestIdHeader)
  IN IF Truthy(id)
     THEN base \o W(" ") \o W("More diagnostic information: x-ms-client-request-id is '") \o Text(id) \o W("'.")
     ELSE base

\* C10: unwrap of an envelope whose statusCode is not "OK", a body-less one
\* included, fails with a DynamicApiError and no other error; its message is
\* "Error code: .., Message: .." when the envelope carries a statusCode and a
\* message, else envelope.body.error.message, else the generic text, with
\* the client-request-id suffix exactly when the headers carry an id.
C10_UnwrapFailsWithDynamicApiError ==
  (Resolved /\ call.isManagedIdentityTypeConnection /\ ~EnvelopeOk)
  => /\ outcome.kind = "throw"
     /\ outcome.error.cause.type = "ConnectorServiceException"
     /\ outcome.error.cause.code = "API_EXECUTION_FAILED_WITH_ERROR"
     /\ outcome.error.cause.message = StatedMessage(Envelope, ExpectedUri(call))
====
